---- MODULE Spec2Model ----
\* A model of the aws crate: the SigV4 signer (src/signers/sigv4.rs) and the
\* credential resolver (src/credentials.rs).
\*
\* Strings are sequences of bytes (Nat), so that byte-wise comparison, ASCII
\* case folding, percent-encoding and whitespace handling are computed as the
\* code computes them. Option<T> is a sequence of length 0 (None) or 1 (Some).
EXTENDS Integers, Sequences, FiniteSets, TLC

\* ------------------------------------------------------------------ bounds
\* number of header()/date() calls on one signer
MaxInserts == 3
\* length of a header value fed to canonical_value
MaxValLen == 3
\* length of a raw query string
MaxQueryLen == 4
\* number of canonical_query_string() calls in one run
MaxRounds == 2

\* ----------------------------------------------------------------- strings
Ord ==
    ( " " :> 32 @@ "\"" :> 34 @@ "%" :> 37 @@ "&" :> 38 @@ "," :> 44 @@ "-" :> 45
   @@ "." :> 46 @@ "/" :> 47 @@ "0" :> 48 @@ "1" :> 49 @@ "2" :> 50 @@ "3" :> 51
   @@ "4" :> 52 @@ "5" :> 53 @@ "6" :> 54 @@ "7" :> 55 @@ "8" :> 56 @@ "9" :> 57
   @@ ":" :> 58 @@ ";" :> 59 @@ "=" :> 61 @@ "A" :> 65 @@ "B" :> 66 @@ "C" :> 67
   @@ "D" :> 68 @@ "E" :> 69 @@ "F" :> 70 @@ "G" :> 71 @@ "H" :> 72 @@ "I" :> 73
   @@ "J" :> 74 @@ "K" :> 75 @@ "L" :> 76 @@ "M" :> 77 @@ "N" :> 78 @@ "O" :> 79
   @@ "P" :> 80 @@ "Q" :> 81 @@ "R" :> 82 @@ "S" :> 83 @@ "T" :> 84 @@ "U" :> 85
   @@ "V" :> 86 @@ "W" :> 87 @@ "X" :> 88 @@ "Y" :> 89 @@ "Z" :> 90 @@ "_" :> 95
   @@ "a" :> 97 @@ "b" :> 98 @@ "c" :> 99 @@ "d" :> 100 @@ "e" :> 101 @@ "f" :> 102
   @@ "g" :> 103 @@ "h" :> 104 @@ "i" :> 105 @@ "j" :> 106 @@ "k" :> 107 @@ "l" :> 108
   @@ "m" :> 109 @@ "n" :> 110 @@ "o" :> 111 @@ "p" :> 112 @@ "q" :> 113 @@ "r" :> 114
   @@ "s" :> 115 @@ "t" :> 116 @@ "u" :> 117 @@ "v" :> 118 @@ "w" :> 119 @@ "x" :> 120
   @@ "y" :> 121 @@ "z" :> 122 )

\* the bytes of a string literal given letter by letter
Str(letters) == [i \in 1..Len(letters) |-> Ord[letters[i]]]

None == <<>>
Some(x) == <<x>>
IsSome(o) == Len(o) = 1
Unwrapped(o) == o[1]

\* byte-wise lexicographic order of str::cmp / String's Ord
StrLess(a, b) ==
    \E i \in 1..(Len(a) + 1) :
        /\ \A j \in 1..(i - 1) : j <= Len(b) /\ a[j] = b[j]
        /\ \/ i = Len(a) + 1 /\ Len(b) >= i
           \/ i <= Len(a) /\ i <= Len(b) /\ a[i] < b[i]

\* all strings over an alphabet up to a length
RECURSIVE StringsUpTo(_, _)
StringsUpTo(alphabet, n) ==
    IF n = 0 THEN {<<>>}
    ELSE LET shorter == StringsUpTo(alphabet, n - 1)
         IN  shorter \cup {Append(s, c) : s \in {t \in shorter : Len(t) = n - 1}, c \in alphabet}

RECURSIVE Concat(_)
Concat(parts) == IF parts = <<>> THEN <<>> ELSE Head(parts) \o Concat(Tail(parts))

\* parts joined by a separator: no leading, trailing or doubled separator
RECURSIVE Join(_, _)
Join(parts, sep) ==
    IF parts = <<>> THEN <<>>
    ELSE IF Len(parts) = 1 THEN parts[1]
    ELSE parts[1] \o sep \o Join(Tail(parts), sep)

\* ------------------------------------------------------- time::Tm, strftime
\* n in decimal, zero-padded to w digits
Digits(n, w) == [i \in 1..w |-> Ord["0"] + ((n \div (10 ^ (w - i))) % 10)]

\* Tm::strftime("%Y%m%dT%H%M%SZ")
strftime_datetime(tm) ==
    Digits(tm.tm_year + 1900, 4) \o Digits(tm.tm_mon + 1, 2) \o Digits(tm.tm_mday, 2)
    \o Str(<<"T">>) \o Digits(tm.tm_hour, 2) \o Digits(tm.tm_min, 2) \o Digits(tm.tm_sec, 2)
    \o Str(<<"Z">>)

\* Tm::strftime("%Y%m%d")
strftime_date(tm) ==
    Digits(tm.tm_year + 1900, 4) \o Digits(tm.tm_mon + 1, 2) \o Digits(tm.tm_mday, 2)

\* the date of the tests: 2011-09-09T23:36:00Z
TestDate ==
    [tm_year |-> 111, tm_mon |-> 8, tm_mday |-> 9, tm_hour |-> 23, tm_min |-> 36, tm_sec |-> 0]

\* the instants now_utc() may return
Dates ==
    { [tm_year |-> 115, tm_mon |-> 0, tm_mday |-> 31, tm_hour |-> 7, tm_min |-> 5, tm_sec |-> 59],
      TestDate }

\* ------------------------------------------------------------ header store
\* str::to_ascii_lowercase
to_ascii_lowercase(s) ==
    [i \in 1..Len(s) |-> IF s[i] \in 65..90 THEN s[i] + 32 ELSE s[i]]

EmptyMap == [k \in {} |-> <<>>]

\* the mutant of append_header that overwrites the values of an existing key
append_header_overwrite(map, key, value) ==
    LET k == to_ascii_lowercase(key)
    IN  [x \in DOMAIN map \cup {k} |-> IF x = k THEN <<value>> ELSE map[x]]

append_header(map, key, value) ==
    LET k == to_ascii_lowercase(key)
    IN  IF k \in DOMAIN map
        THEN [map EXCEPT ![k] = Append(@, value)]
        ELSE [x \in DOMAIN map \cup {k} |-> IF x = k THEN <<value>> ELSE map[x]]

\* BTreeMap::iter: the keys in ascending order
RECURSIVE SortedKeys(_)
SortedKeys(keys) ==
    IF keys = {} THEN <<>>
    ELSE LET least == CHOOSE k \in keys : \A j \in keys : j = k \/ StrLess(k, j)
         IN  <<least>> \o SortedKeys(keys \ {least})

AUTHORIZATION == Str(<<"a","u","t","h","o","r","i","z","a","t","i","o","n">>)
X_AMZ_DATE == Str(<<"X","-","A","m","z","-","D","a","t","e">>)

\* ------------------------------------------------------------ canonicalizer
IsWhitespace(c) == c \in {9, 10, 11, 12, 13, 32}

\* str::trim
trim(s) ==
    LET keep == {i \in 1..Len(s) : ~IsWhitespace(s[i])}
    IN  IF keep = {} THEN <<>>
        ELSE LET first == CHOOSE i \in keep : \A j \in keep : i <= j
                 last == CHOOSE i \in keep : \A j \in keep : i >= j
             IN  SubSeq(s, first, last)

\* str::replace("  ", " "): the non-overlapping matches, found left to right
RECURSIVE replace_from(_, _)
replace_from(s, i) ==
    IF i > Len(s) THEN <<>>
    ELSE IF i < Len(s) /\ s[i] = 32 /\ s[i + 1] = 32
         THEN <<32>> \o replace_from(s, i + 2)
         ELSE <<s[i]>> \o replace_from(s, i + 1)

replace_double_space(s) == replace_from(s, 1)

starts_with_quote(v) == Len(v) > 0 /\ v[1] = Ord["\""]

\* the mutant of canonical_piece that canonicalizes quoted values too
canonical_piece_noquote(v) == trim(replace_double_space(v))

\* what the loop body of canonical_value pushes for one value
canonical_piece(v) ==
    IF starts_with_quote(v) THEN v ELSE trim(replace_double_space(v))

RECURSIVE canonical_value_loop(_, _)
canonical_value_loop(st, val) ==
    IF val = <<>> THEN st
    ELSE LET st1 == IF Len(st) > 0 THEN st \o Str(<<",">>) ELSE st
         IN  canonical_value_loop(st1 \o canonical_piece(Head(val)), Tail(val))

canonical_value(val) == canonical_value_loop(<<>>, val)

RECURSIVE signed_headers_loop(_, _)
signed_headers_loop(h, keys) ==
    IF keys = <<>> THEN h
    ELSE LET h1 == IF Len(h) > 0 THEN h \o Str(<<";">>) ELSE h
         IN  IF Head(keys) = AUTHORIZATION
             THEN signed_headers_loop(h1, Tail(keys))
             ELSE signed_headers_loop(h1 \o Head(keys), Tail(keys))

signed_headers(self) == signed_headers_loop(<<>>, SortedKeys(DOMAIN self.headers))

RECURSIVE canonical_headers_loop(_, _, _)
canonical_headers_loop(h, keys, headers) ==
    IF keys = <<>> THEN h
    ELSE IF Head(keys) = AUTHORIZATION
         THEN canonical_headers_loop(h, Tail(keys), headers)
         ELSE canonical_headers_loop(
                  h \o Head(keys) \o Str(<<":">>) \o canonical_value(headers[Head(keys)])
                    \o <<10>>,
                  Tail(keys), headers)

canonical_headers(self) ==
    canonical_headers_loop(<<>>, SortedKeys(DOMAIN self.headers), self.headers)

\* str::split(sep): the pieces between the separators, "" giving one empty piece
RECURSIVE split_loop(_, _, _, _, _)
split_loop(x, sep, i, cur, acc) ==
    IF i > Len(x) THEN Append(acc, cur)
    ELSE IF x[i] = sep
         THEN split_loop(x, sep, i + 1, <<>>, Append(acc, cur))
         ELSE split_loop(x, sep, i + 1, Append(cur, x[i]), acc)

split(x, sep) == split_loop(x, sep, 1, <<>>, <<>>)

contains_char(q, c) == \E i \in 1..Len(q) : q[i] = c

\* str::splitn(1, sep) as the tests of canonical_query_string need it: at most one
\* split, so at most two pieces, the second holding the rest of the string
splitn_1(q, sep) ==
    IF ~contains_char(q, sep) THEN <<q>>
    ELSE LET at == CHOOSE i \in 1..Len(q) : q[i] = sep /\ \A j \in 1..(i - 1) : q[j] # sep
         IN  <<SubSeq(q, 1, at - 1), SubSeq(q, at + 1, Len(q))>>

\* the mutant of parse_token that splits at every '=' and keeps two pieces
parse_token_split_all(q) ==
    IF contains_char(q, Ord["="])
    THEN LET n == split(q, Ord["="]) IN [k |-> n[1], v |-> n[2]]
    ELSE [k |-> q, v |-> <<>>]

\* the mutant of parse_token that takes the pieces in the wrong order
parse_token_swapped(q) ==
    IF contains_char(q, Ord["="])
    THEN LET n == splitn_1(q, Ord["="]) IN [k |-> n[2], v |-> n[1]]
    ELSE [k |-> q, v |-> <<>>]

\* the body of the loop of canonical_query_string: one token to one QP
parse_token(q) ==
    IF contains_char(q, Ord["="])
    THEN LET n == splitn_1(q, Ord["="]) IN [k |-> n[1], v |-> n[2]]
    ELSE [k |-> q, v |-> <<>>]

\* the Vec<QP> canonical_query_string hands to sort_query_string
parse_query(x) ==
    LET tokens == split(x, Ord["&"])
    IN  [i \in 1..Len(tokens) |-> parse_token(tokens[i])]

\* the bytes FORM_URLENCODED_ENCODE_SET leaves as they are
Unreserved == {42, 45, 46, 95} \cup (48..57) \cup (65..90) \cup (97..122)

HexDigit(d) == IF d < 10 THEN 48 + d ELSE 55 + d

percent_encode_to(byte) ==
    IF byte \in Unreserved THEN <<byte>>
    ELSE <<37, HexDigit(byte \div 16), HexDigit(byte % 16)>>

byte_serialize(input) == Concat([i \in 1..Len(input) |-> percent_encode_to(input[i])])

InsertAt(s, p, item) == SubSeq(s, 1, p - 1) \o <<item>> \o SubSeq(s, p, Len(s))

\* the mutant of sort_by_key that is not stable: equal keys end up reversed
RECURSIVE sort_by_key_unstable(_)
sort_by_key_unstable(query) ==
    IF query = <<>> THEN <<>>
    ELSE LET sorted == sort_by_key_unstable(SubSeq(query, 1, Len(query) - 1))
             item == query[Len(query)]
             before == {i \in 1..Len(sorted) : StrLess(sorted[i].k, item.k)}
         IN  InsertAt(sorted, Cardinality(before) + 1, item)

\* query.sort_by(|a, b| a.k.cmp(b.k)): a stable sort by key
RECURSIVE sort_by_key(_)
sort_by_key(query) ==
    IF query = <<>> THEN <<>>
    ELSE LET sorted == sort_by_key(SubSeq(query, 1, Len(query) - 1))
             item == query[Len(query)]
             before == {i \in 1..Len(sorted) : ~StrLess(item.k, sorted[i].k)}
         IN  InsertAt(sorted, Cardinality(before) + 1, item)

RECURSIVE sort_query_string_loop(_, _)
sort_query_string_loop(output, items) ==
    IF items = <<>> THEN output
    ELSE LET o1 == IF Len(output) > 0 THEN output \o Str(<<"&">>) ELSE output
         IN  sort_query_string_loop(
                 o1 \o byte_serialize(Head(items).k) \o Str(<<"=">>)
                    \o byte_serialize(Head(items).v),
                 Tail(items))

sort_query_string(query) == sort_query_string_loop(<<>>, sort_by_key(query))

canonical_query_string(self) ==
    IF self.query = None THEN <<>>
    ELSE sort_query_string(parse_query(Unwrapped(self.query)))

\* expand_string
expand_string(val) == IF IsSome(val) THEN Unwrapped(val) ELSE <<>>

\* OpenSSL's SHA-256 and HMAC and the hex encoding of their digests are not
\* computed: a digest is the term naming its inputs, written in values that are
\* no bytes, so that equal digests mean equal inputs.
Term == [sha256_hex |-> 256, hmac |-> 257, hex |-> 258, sep |-> 259, end |-> 260]

\* Hasher::new(SHA256), update(data), finalize().to_hex()
sha256_hex(data) == <<Term.sha256_hex>> \o data \o <<Term.end>>

\* hmac
hmac(key, data) == <<Term.hmac>> \o key \o <<Term.sep>> \o data \o <<Term.end>>

\* ToHex::to_hex of a digest
to_hex(digest) == <<Term.hex>> \o digest \o <<Term.end>>

\* SigV4::hashed_payload
hashed_payload(self) == sha256_hex(expand_string(self.payload))

\* canonical_request with the headers block and the signed headers exchanged
canonical_request_misordered(self) ==
    expand_string(self.method) \o <<10>> \o expand_string(self.path) \o <<10>>
    \o canonical_query_string(self) \o <<10>> \o signed_headers(self) \o <<10>>
    \o canonical_headers(self) \o <<10>> \o hashed_payload(self)

\* SigV4::canonical_request
canonical_request(self) ==
    expand_string(self.method) \o <<10>> \o expand_string(self.path) \o <<10>>
    \o canonical_query_string(self) \o <<10>> \o canonical_headers(self) \o <<10>>
    \o signed_headers(self) \o <<10>> \o hashed_payload(self)

\* SigV4::hashed_canonical_request
hashed_canonical_request(self) == sha256_hex(canonical_request(self))

AWS4_REQUEST == Str(<<"a","w","s","4","_","r","e","q","u","e","s","t">>)

\* SigV4::credential_scope
credential_scope(self) ==
    strftime_date(self.date) \o Str(<<"/">>) \o expand_string(self.region) \o Str(<<"/">>)
    \o expand_string(self.service) \o Str(<<"/">>) \o AWS4_REQUEST

\* SigV4::signing_string
signing_string(self) ==
    Str(<<"A","W","S","4","-","H","M","A","C","-","S","H","A","2","5","6">>) \o <<10>>
    \o strftime_datetime(self.date) \o <<10>> \o credential_scope(self) \o <<10>>
    \o hashed_canonical_request(self)

\* SigV4::derived_signing_key: credentials.unwrap().secret.unwrap() panics on None
derived_signing_key(self) ==
    IF ~IsSome(self.credentials) \/ ~IsSome(Unwrapped(self.credentials).secret)
    THEN [panic |-> TRUE, value |-> <<>>]
    ELSE LET kSecret == Unwrapped(Unwrapped(self.credentials).secret)
             kDate == hmac(Str(<<"A","W","S","4">>) \o kSecret, strftime_date(self.date))
             kRegion == hmac(kDate, expand_string(self.region))
             kService == hmac(kRegion, expand_string(self.service))
         IN  [panic |-> FALSE, value |-> hmac(kService, AWS4_REQUEST)]

\* SigV4::signature: the key is derived first, so its panic ends the call
signature(self) ==
    LET key == derived_signing_key(self)
    IN  IF key.panic THEN [kind |-> "panic", value |-> <<>>]
        ELSE [kind |-> "ok", value |-> to_hex(hmac(key.value, signing_string(self)))]

\* ------------------------------------------------------ credential resolver
AWS_ACCESS_KEY_ID_KEY == Str(<<"a","w","s","_","a","c","c","e","s","s","_","k","e","y","_","i","d">>)
AWS_SECRET_ACCESS_KEY_KEY ==
    Str(<<"a","w","s","_","s","e","c","r","e","t","_","a","c","c","e","s","s","_","k","e","y">>)

\* get_default_profile
get_default_profile(e) ==
    IF IsSome(e.AWS_PROFILE) THEN Unwrapped(e.AWS_PROFILE)
    ELSE Str(<<"d","e","f","a","u","l","t">>)

is_absolute(val) == Len(val) > 0 /\ val[1] = Ord["/"]

\* PathBuf::push: an absolute component replaces the path, another is appended
\* behind a separator
PathBuf_push(p, component) ==
    IF is_absolute(component) THEN component
    ELSE IF p = <<>> \/ p[Len(p)] = Ord["/"] THEN p \o component
    ELSE p \o Str(<<"/">>) \o component

\* get_profile_path
get_profile_path(e) ==
    LET home == IF IsSome(e.HOME) THEN Unwrapped(e.HOME) ELSE Str(<<"/","r","o","o","t">>)
    IN  PathBuf_push(PathBuf_push(home, Str(<<".","a","w","s">>)),
                     Str(<<"c","r","e","d","e","n","t","i","a","l","s">>))

\* get_absolute_path: current_dir().unwrap() panics when there is no current
\* directory to name
get_absolute_path(val, dir) ==
    IF is_absolute(val) THEN [panic |-> FALSE, value |-> val]
    ELSE IF ~IsSome(dir) THEN [panic |-> TRUE, value |-> <<>>]
    ELSE [panic |-> FALSE, value |-> PathBuf_push(Unwrapped(dir), val)]

\* Ini::load_from_file: Err for a missing or unparseable file
Ini_load_from_file(files, path) ==
    IF path \in DOMAIN files /\ files[path].parses
    THEN [ok |-> TRUE, doc |-> files[path].doc]
    ELSE [ok |-> FALSE, doc |-> EmptyMap]

\* the first half of load: the fields read from the profile's section of the file
load_file(self, files) ==
    LET conf == Ini_load_from_file(files, self.path)
    IN  IF conf.ok /\ self.profile \in DOMAIN conf.doc
        THEN LET section == conf.doc[self.profile]
             IN  [self EXCEPT
                    !.key = IF AWS_ACCESS_KEY_ID_KEY \in DOMAIN section
                            THEN Some(section[AWS_ACCESS_KEY_ID_KEY]) ELSE @,
                    !.secret = IF AWS_SECRET_ACCESS_KEY_KEY \in DOMAIN section
                               THEN Some(section[AWS_SECRET_ACCESS_KEY_KEY]) ELSE @]
        ELSE self

\* the second half of load: the fields overwritten from the environment
load_env(self, e) ==
    [self EXCEPT
        !.key = IF IsSome(e.AWS_ACCESS_KEY_ID) THEN Some(Unwrapped(e.AWS_ACCESS_KEY_ID)) ELSE @,
        !.secret = IF IsSome(e.AWS_SECRET_ACCESS_KEY)
                   THEN Some(Unwrapped(e.AWS_SECRET_ACCESS_KEY)) ELSE @]

\* the mutant of load in which the file overwrites the environment
load_file_wins(self, e, files) ==
    [panic |-> FALSE, value |-> load_file(load_env(self, e), files)]

\* the mutant of load that unwraps the result of Ini::load_from_file
load_unwrap(self, e, files) ==
    IF Ini_load_from_file(files, self.path).ok
    THEN [panic |-> FALSE, value |-> load_env(load_file(self, files), e)]
    ELSE [panic |-> TRUE, value |-> self]

\* Credentials::load: it has no failing path
load(self, e, files) ==
    [panic |-> FALSE, value |-> load_env(load_file(self, files), e)]

\* ------------------------------------------------------------------- state
VARIABLES
    sig,        \* the SigV4 under construction (the struct's fields)
    inserted,   \* the (name, value) arguments of the append_header calls so far
    canon,      \* the canonical_query_string() calls so far: [input, output]
    outcome,    \* how signature() ended, once called
    cred,       \* the Credentials under construction (the struct's fields)
    cpc,        \* where the credential resolution stands
    env,        \* the process environment: variable -> Option<String>
    cwd,        \* env::current_dir(): Option<String>, None when it fails
    fs,         \* the file system: path -> what Ini::load_from_file finds there
    test,       \* the running tests: name -> where it stands and what it loaded
    lock        \* the tests' static LOCK: who holds it, and whether it is poisoned

vars == <<sig, inserted, canon, outcome, cred, cpc, env, cwd, fs, test, lock>>

suiteVars == <<test, lock>>

\* the RwLock as RW_LOCK_INIT leaves it
Unlocked == [readers |-> {}, writer |-> {}, poisoned |-> FALSE]

\* no test running: the calls are made by a single caller
NoSuite == test = <<>> /\ lock = Unlocked

credVars == <<cred, cpc, env, cwd, fs>>

Pending == [kind |-> "pending", value |-> <<>>]

\* the Credentials value before Credentials::new() has run
Unbuilt == [key |-> None, secret |-> None, path |-> <<>>, profile |-> <<>>]

\* no credential resolution under way, in an empty environment
NoCredentials ==
    /\ cred = Unbuilt
    /\ cpc = "start"
    /\ env = [AWS_ACCESS_KEY_ID |-> None, AWS_SECRET_ACCESS_KEY |-> None,
              AWS_PROFILE |-> None, HOME |-> None]
    /\ cwd = Some(<<47>>)
    /\ fs = EmptyMap

\* SigV4::new
SigV4_new(dt) ==
    [credentials |-> None, date |-> dt, headers |-> EmptyMap, method |-> None,
     path |-> None, payload |-> None, query |-> None, region |-> None, service |-> None]

\* SigV4::header
SigV4_header(header) ==
    /\ outcome = Pending
    /\ Len(inserted) < MaxInserts
    /\ sig' = [sig EXCEPT !.headers = append_header(@, header.key, header.value)]
    /\ inserted' = Append(inserted, <<header.key, header.value>>)
    /\ UNCHANGED <<suiteVars, canon, outcome, credVars>>

\* SigV4::date
SigV4_date ==
    /\ outcome = Pending
    /\ Len(inserted) < MaxInserts
    /\ sig' = [sig EXCEPT !.headers =
                  append_header(@, X_AMZ_DATE, strftime_datetime(sig.date))]
    /\ inserted' = Append(inserted, <<X_AMZ_DATE, strftime_datetime(sig.date)>>)
    /\ UNCHANGED <<suiteVars, canon, outcome, credVars>>

\* SigV4::credentials
SigV4_credentials(credentials) ==
    /\ outcome = Pending
    /\ sig' = [sig EXCEPT !.credentials = Some(credentials)]
    /\ UNCHANGED <<suiteVars, inserted, canon, outcome, credVars>>

\* SigV4::path
SigV4_path(path) ==
    /\ outcome = Pending
    /\ sig' = [sig EXCEPT !.path = Some(path)]
    /\ UNCHANGED <<suiteVars, inserted, canon, outcome, credVars>>

\* SigV4::method
SigV4_method(method) ==
    /\ outcome = Pending
    /\ sig' = [sig EXCEPT !.method = Some(method)]
    /\ UNCHANGED <<suiteVars, inserted, canon, outcome, credVars>>

\* SigV4::payload
SigV4_payload(payload) ==
    /\ outcome = Pending
    /\ sig' = [sig EXCEPT !.payload = Some(payload)]
    /\ UNCHANGED <<suiteVars, inserted, canon, outcome, credVars>>

\* SigV4::signature, which consumes the signer
SigV4_signature ==
    /\ outcome = Pending
    /\ outcome' = signature(sig)
    /\ UNCHANGED <<suiteVars, sig, inserted, canon, credVars>>

\* SigV4::query
SigV4_query(query) ==
    /\ outcome = Pending
    /\ sig' = [sig EXCEPT !.query = Some(query)]
    /\ UNCHANGED <<suiteVars, inserted, canon, outcome, credVars>>

\* a call of canonical_query_string() on the signer, once per query set
CanonicalQueryString ==
    /\ outcome = Pending
    /\ IsSome(sig.query)
    /\ Len(canon) < MaxRounds
    /\ \A n \in 1..Len(canon) : canon[n].input # Unwrapped(sig.query)
    /\ canon' = Append(canon, [input |-> Unwrapped(sig.query),
                               output |-> canonical_query_string(sig)])
    /\ UNCHANGED <<suiteVars, sig, inserted, outcome, credVars>>

\* Credentials::new
Credentials_new ==
    /\ cpc = "start"
    /\ cred' = [key |-> None, secret |-> None, path |-> get_profile_path(env),
                profile |-> get_default_profile(env)]
    /\ cpc' = "built"
    /\ UNCHANGED <<suiteVars, sig, inserted, canon, outcome, env, cwd, fs>>

\* Credentials::path
Credentials_path(path) ==
    /\ cpc = "built"
    /\ LET p == get_absolute_path(path, cwd)
       IN  IF p.panic
           THEN cpc' = "path_panicked" /\ cred' = cred
           ELSE cpc' = cpc /\ cred' = [cred EXCEPT !.path = p.value]
    /\ UNCHANGED <<suiteVars, sig, inserted, canon, outcome, env, cwd, fs>>

\* Credentials::profile
Credentials_profile(profile) ==
    /\ cpc = "built"
    /\ cred' = [cred EXCEPT !.profile = profile]
    /\ UNCHANGED <<suiteVars, sig, inserted, canon, outcome, cpc, env, cwd, fs>>

\* Credentials::load
Credentials_load ==
    /\ cpc = "built"
    /\ LET r == load(cred, env, fs)
       IN  /\ cpc' = IF r.panic THEN "load_panicked" ELSE "loaded"
           /\ cred' = r.value
    /\ UNCHANGED <<suiteVars, sig, inserted, canon, outcome, env, cwd, fs>>

\* ------------------------------------------- the header store: header(), date()
HeaderNames ==
    { Str(<<"A","b">>), Str(<<"a","B">>),
      Str(<<"A","u","t","h","o","r","i","z","a","t","i","o","n">>), Str(<<"x">>) }

HeaderValues == { <<>>, Str(<<"b">>), Str(<<"c">>) }

InitHdr ==
    /\ sig \in {SigV4_new(dt) : dt \in Dates}
    /\ inserted = <<>>
    /\ canon = <<>>
    /\ outcome = Pending
    /\ NoSuite
    /\ NoCredentials

NextHdr ==
    \/ \E k \in HeaderNames, v \in HeaderValues : SigV4_header([key |-> k, value |-> v])
    \/ SigV4_date

SpecHdr == InitHdr /\ [][NextHdr]_vars

\* --------------------------------- canonical_value over bounded header values
ValueAlphabet == {9, 32, Ord["\""], Ord["a"]}

ValueStrings == StringsUpTo(ValueAlphabet, MaxValLen)

\* the values that follow the first one under the same name
LaterValues ==
    { Str(<<"\"", " ", " ", "a">>), Str(<<" ", "a", " ", " ", "a">>), Str(<<"a">>),
      Str(<<"a", " ", " ", " ", "b">>) }

VALUE_HEADER == Str(<<"A","b">>)

InitVal ==
    /\ sig = SigV4_new(TestDate)
    /\ inserted = <<>>
    /\ canon = <<>>
    /\ outcome = Pending
    /\ NoSuite
    /\ NoCredentials

NextVal ==
    \/ \E v \in ValueStrings :
          inserted = <<>> /\ SigV4_header([key |-> VALUE_HEADER, value |-> v])
    \/ \E v \in LaterValues :
          inserted # <<>> /\ SigV4_header([key |-> VALUE_HEADER, value |-> v])

SpecVal == InitVal /\ [][NextVal]_vars

\* ------------------------------------ query(), canonical_query_string()
QueryAlphabet == {Ord[" "], Ord["&"], Ord["="], Ord["a"], Ord["b"]}

\* the raw queries of the tests of canonical_query_string
TestQueries ==
    { Str(<<"a"," ","s","p","a","c","e","=","w","o","o"," ","w","o","o","&",
            "x","-","a","m","z","-","h","e","a","d","e","r","=","f","o","o">>),
      Str(<<"o","t","h","e","r","=","&","t","e","s","t","&",
            "x","-","a","m","z","-","h","e","a","d","e","r","=","f","o","o">>),
      Str(<<"f","o","o","=","&","b","a","r","=","&","b","a","z","=">>),
      Str(<<"q",".","o","p","t","i","o","n","s","=","a","b","c","&",
            "q","=","x","y","z","&","q","=","m","n","o">>) }

QueryStrings == StringsUpTo(QueryAlphabet, MaxQueryLen) \cup TestQueries

InitQry ==
    /\ sig = SigV4_new(TestDate)
    /\ inserted = <<>>
    /\ canon = <<>>
    /\ outcome = Pending
    /\ NoSuite
    /\ NoCredentials

\* a raw query, then its canonical form, which may be fed back as the query
NextQry ==
    \/ \E q \in QueryStrings : sig.query = None /\ SigV4_query(q)
    \/ CanonicalQueryString
    \/ canon # <<>> /\ SigV4_query(canon[Len(canon)].output)

SpecQry == InitQry /\ [][NextQry]_vars

\* ---------------------------------- new(), path(), profile(), load()
PROFILE_FIRST == Str(<<"f","i","r","s","t">>)
PROFILE_DEFAULT == Str(<<"d","e","f","a","u","l","t">>)

\* fixtures/credentials.ini as the tests read it: a default profile with both
\* keys, a profile with the access key only
FixtureIni ==
    [parses |-> TRUE,
     doc |-> ( PROFILE_DEFAULT :> ( AWS_ACCESS_KEY_ID_KEY :> Str(<<"1","2","3","4","5">>)
                                 @@ AWS_SECRET_ACCESS_KEY_KEY :> Str(<<"s","1">>) )
            @@ PROFILE_FIRST :> ( AWS_ACCESS_KEY_ID_KEY :> Str(<<"z","x">>) ) )]

\* a file without a default profile
OtherIni ==
    [parses |-> TRUE,
     doc |-> ( PROFILE_FIRST :> ( AWS_SECRET_ACCESS_KEY_KEY :> Str(<<"s","2">>) ) )]

UnparseableFile == [parses |-> FALSE, doc |-> EmptyMap]

FileContents == {FixtureIni, OtherIni, UnparseableFile}

HOME_DIR == Str(<<"/","h">>)
WORK_DIR == Str(<<"/","w">>)
RELATIVE_PATH == Str(<<"f">>)
ABSOLUTE_PATH == Str(<<"/","m">>)

\* the places a credentials file is looked for
DefaultPaths ==
    { Str(<<"/","h","/",".","a","w","s","/","c","r","e","d","e","n","t","i","a","l","s">>),
      Str(<<"/","r","o","o","t","/",".","a","w","s","/","c","r","e","d","e","n","t","i","a","l","s">>) }

GivenPaths == { Str(<<"/","w","/","f">>), ABSOLUTE_PATH }

\* a file system: the default places hold the same file or none, each given
\* place a file of its own or none
FileSystems ==
    { [p \in (IF d = {} THEN {} ELSE DefaultPaths) \cup DOMAIN g |->
          IF p \in DOMAIN g THEN g[p] ELSE CHOOSE c \in d : TRUE] :
      d \in {{}} \cup {{c} : c \in FileContents},
      g \in UNION {[ps -> FileContents] : ps \in SUBSET GivenPaths} }

Environments ==
    [AWS_ACCESS_KEY_ID : {None, Some(Str(<<"e","k">>))},
     AWS_SECRET_ACCESS_KEY : {None, Some(Str(<<"e","s">>))},
     AWS_PROFILE : {None, Some(PROFILE_FIRST)},
     HOME : {None, Some(HOME_DIR)}]

InitCred ==
    /\ sig = SigV4_new(TestDate)
    /\ inserted = <<>>
    /\ canon = <<>>
    /\ outcome = Pending
    /\ NoSuite
    /\ cred = Unbuilt
    /\ cpc = "start"
    /\ env \in Environments
    /\ cwd \in {None, Some(WORK_DIR)}
    /\ fs \in FileSystems

NextCred ==
    \/ Credentials_new
    \/ \E p \in {RELATIVE_PATH, ABSOLUTE_PATH} : Credentials_path(p)
    \/ \E p \in {PROFILE_FIRST, PROFILE_DEFAULT} : Credentials_profile(p)
    \/ Credentials_load

SpecCred == InitCred /\ [][NextCred]_vars

\* ------------------------------- resolving credentials, building, signing
\* the signer of the tests: SigV4::new(), or the struct with region and service
SignersSig ==
    { [SigV4_new(dt) EXCEPT !.region = rs[1], !.service = rs[2]] :
      dt \in Dates,
      rs \in { <<None, None>>,
               <<Some(Str(<<"u","s","-","e","a","s","t","-","1">>)), Some(Str(<<"i","a","m">>))>> } }

InitSig ==
    /\ sig \in SignersSig
    /\ inserted = <<>>
    /\ canon = <<>>
    /\ outcome = Pending
    /\ NoSuite
    /\ cred = Unbuilt
    /\ cpc = "start"
    /\ env \in {e \in Environments : e.AWS_PROFILE = None /\ e.HOME = Some(HOME_DIR)
                                      /\ e.AWS_ACCESS_KEY_ID = None}
    /\ cwd = Some(WORK_DIR)
    /\ fs \in {f \in FileSystems : DOMAIN f = DefaultPaths /\ \A p \in DOMAIN f : f[p] = FixtureIni}

NextSig ==
    \/ Credentials_new
    \/ Credentials_profile(PROFILE_FIRST)
    \/ Credentials_load
    \/ cpc \in {"built", "loaded"} /\ SigV4_credentials(cred)
    \/ SigV4_header([key |-> Str(<<"H","o","s","t">>), value |-> Str(<<"h">>)])
    \/ SigV4_date
    \/ SigV4_path(Str(<<"/">>))
    \/ SigV4_method(Str(<<"P","O","S","T">>))
    \/ sig.query = None /\ SigV4_query(Str(<<"b","=","1","&","a">>))
    \/ SigV4_payload(Str(<<"A","=","1">>))
    \/ SigV4_signature

SpecSig == InitSig /\ [][NextSig]_vars

\* ------------------- the request fields: method(), path(), query(), payload()
RequestHeaders ==
    { [key |-> Str(<<"H","o","s","t">>), value |-> Str(<<"h">>)],
      [key |-> Str(<<"A","u","t","h","o","r","i","z","a","t","i","o","n">>), value |-> Str(<<"x">>)],
      [key |-> Str(<<"h","o","s","t">>), value |-> Str(<<" ","a"," "," ","b">>)] }

RequestQueries == { Str(<<"b","=","1","&","a">>), Str(<<"a"," ","b">>) }

InitReq ==
    /\ sig \in {SigV4_new(dt) : dt \in Dates}
    /\ inserted = <<>>
    /\ canon = <<>>
    /\ outcome = Pending
    /\ NoSuite
    /\ NoCredentials

NextReq ==
    \/ \E h \in RequestHeaders : SigV4_header(h)
    \/ SigV4_date
    \/ SigV4_path(Str(<<"/">>))
    \/ SigV4_method(Str(<<"P","O","S","T">>))
    \/ \E q \in RequestQueries : SigV4_query(q)
    \/ \E p \in {<<>>, Str(<<"A","=","1">>)} : SigV4_payload(p)

SpecReq == InitReq /\ [][NextReq]_vars

\* ------------------------------------ the test suite, run in parallel threads
PROFILE_AWS == Str(<<"a","w","s">>)
KEY_12345 == Str(<<"1","2","3","4","5">>)
KEY_ZXSPECTRUM == Str(<<"z","x","s","p","e","c","t","r","u","m">>)
ENVACCESS == Str(<<"e","n","v","a","c","c","e","s","s">>)
ENVSECRET == Str(<<"e","n","v","s","e","c","r","e","t">>)
AWS_SECRET == Str(<<"w","J","a","l","r">>)
FIXTURE_PATH ==
    Str(<<"f","i","x","t","u","r","e","s","/","c","r","e","d","e","n","t","i","a","l","s",".","i","n","i">>)

\* fixtures/credentials.ini with the values the tests expect of it
SuiteIni ==
    [parses |-> TRUE,
     doc |-> ( PROFILE_DEFAULT :> ( AWS_ACCESS_KEY_ID_KEY :> KEY_12345
                                 @@ AWS_SECRET_ACCESS_KEY_KEY :> Str(<<"s","1">>) )
            @@ PROFILE_FIRST :> ( AWS_ACCESS_KEY_ID_KEY :> KEY_ZXSPECTRUM )
            @@ PROFILE_AWS :> ( AWS_ACCESS_KEY_ID_KEY :> Str(<<"A","K","I","D">>)
                             @@ AWS_SECRET_ACCESS_KEY_KEY :> AWS_SECRET ) )]

\* the statements of a test that touch the lock, the environment or Credentials
ReadLock == [op |-> "read", var |-> "", arg |-> <<>>]
WriteLock == [op |-> "write", var |-> "", arg |-> <<>>]
SetVar(name, value) == [op |-> "set_var", var |-> name, arg |-> value]
RemoveVar(name) == [op |-> "remove_var", var |-> name, arg |-> <<>>]
\* Credentials::new().path("fixtures/credentials.ini")[.profile(p)].load()
Load(profile) == [op |-> "load", var |-> "", arg |-> profile]
Asserts == [op |-> "assert", var |-> "", arg |-> <<>>]

\* the tests that load credentials or change the environment, statement by
\* statement; the tests of credentials.rs take LOCK first, those of sigv4.rs
\* do not (LOCK is private to the test module of credentials.rs)
Script ==
    [test_load_default |-> <<ReadLock, Load(None), Asserts>>,
     test_load_specific |-> <<ReadLock, Load(Some(PROFILE_FIRST)), Asserts>>,
     test_env_first_success |->
        <<WriteLock, SetVar("AWS_ACCESS_KEY_ID", ENVACCESS),
          SetVar("AWS_SECRET_ACCESS_KEY", ENVSECRET), Load(None),
          RemoveVar("AWS_ACCESS_KEY_ID"), RemoveVar("AWS_SECRET_ACCESS_KEY"), Asserts>>,
     test_env_first_fail |->
        <<WriteLock, SetVar("AWS_SECRET_ACCESS_KEY", ENVSECRET), Load(None),
          RemoveVar("AWS_SECRET_ACCESS_KEY"), Asserts>>,
     test_add_credentials |-> <<Load(None), Asserts>>,
     test_signing_key |-> <<Load(Some(PROFILE_AWS)), Asserts>>,
     test_signature |-> <<Load(Some(PROFILE_AWS)), Asserts>>]

Suite == DOMAIN Script

\* the statement test t is about to run
Statement(t) ==
    IF test[t].pc <= Len(Script[t]) THEN Script[t][test[t].pc]
    ELSE [op |-> "end", var |-> "", arg |-> <<>>]

\* the signer test_signing_key builds around the loaded credentials
signing_key_signer(c) ==
    LET s == [SigV4_new(TestDate) EXCEPT
                 !.credentials = Some(c), !.path = Some(Str(<<"/">>)),
                 !.method = Some(Str(<<"P","O","S","T">>)),
                 !.payload = Some(Str(<<"A","=","1">>)),
                 !.region = Some(Str(<<"u","s","-","e","a","s","t","-","1">>)),
                 !.service = Some(Str(<<"i","a","m">>))]
    IN  [s EXCEPT !.headers = append_header(@, X_AMZ_DATE, strftime_datetime(s.date))]

\* the signer test_signature builds: the same with two headers more
signature_signer(c) ==
    LET s == signing_key_signer(c)
    IN  [s EXCEPT !.headers =
            append_header(append_header(@, Str(<<"C","o","n","t","e","n","t","-","T","y","p","e">>),
                                        Str(<<"a",";"," ","c","=","u">>)),
                          Str(<<"H","o","s","t">>), Str(<<"h">>))]

\* the credentials the expected digests of the signer tests were computed from
AwsCredentials ==
    [key |-> Some(Str(<<"A","K","I","D">>)), secret |-> Some(AWS_SECRET),
     path |-> <<>>, profile |-> PROFILE_AWS]

\* the assert_eq!s of test t on the credentials c it loaded; unwrap() of an
\* absent field panics, which fails the test as well
assertion(t, c) ==
    CASE t = "test_load_default" -> c.key = Some(KEY_12345)
      [] t = "test_load_specific" -> c.key = Some(KEY_ZXSPECTRUM)
      [] t = "test_env_first_success" -> c.key = Some(ENVACCESS) /\ c.secret = Some(ENVSECRET)
      [] t = "test_env_first_fail" -> c.key = Some(KEY_12345) /\ c.secret = Some(ENVSECRET)
      [] t = "test_add_credentials" ->
            Unwrapped(signing_key_signer(c).credentials).key = Some(KEY_12345)
      [] t = "test_signing_key" ->
            derived_signing_key(signing_key_signer(c))
              = derived_signing_key(signing_key_signer(AwsCredentials))
      [] t = "test_signature" ->
            signature(signature_signer(c)) = signature(signature_signer(AwsCredentials))

\* test u has set a variable it has not removed yet
BetweenSetAndRemove(u) ==
    /\ \E i \in 1..Len(Script[u]) : i < test[u].pc /\ Script[u][i].op = "set_var"
    /\ \E j \in 1..Len(Script[u]) : j >= test[u].pc /\ Script[u][j].op = "remove_var"

\* a test ends: a failed assertion unwinds, and a write guard dropped while
\* unwinding poisons the lock
Finished(t, ok) ==
    /\ test' = [test EXCEPT ![t].pc = Len(Script[t]) + 1,
                            ![t].result = IF ok THEN "passed" ELSE "failed"]
    /\ lock' = [readers |-> lock.readers \ {t}, writer |-> lock.writer \ {t},
                poisoned |-> lock.poisoned \/ (~ok /\ t \in lock.writer)]

\* LOCK.read().unwrap(): waits while a writer holds the lock; a poisoned lock
\* gives Err and unwrap() panics
RwLock_read(t) ==
    /\ Statement(t).op = "read"
    /\ lock.writer = {}
    /\ IF lock.poisoned THEN Finished(t, FALSE)
       ELSE /\ lock' = [lock EXCEPT !.readers = @ \cup {t}]
            /\ test' = [test EXCEPT ![t].pc = @ + 1]
    /\ UNCHANGED <<sig, inserted, canon, outcome, credVars>>

\* LOCK.write().unwrap(): waits while anyone holds the lock
RwLock_write(t) ==
    /\ Statement(t).op = "write"
    /\ lock.writer = {} /\ lock.readers = {}
    /\ IF lock.poisoned THEN Finished(t, FALSE)
       ELSE /\ lock' = [lock EXCEPT !.writer = {t}]
            /\ test' = [test EXCEPT ![t].pc = @ + 1]
    /\ UNCHANGED <<sig, inserted, canon, outcome, credVars>>

\* env::set_var
env_set_var(t) ==
    /\ Statement(t).op = "set_var"
    /\ env' = [env EXCEPT ![Statement(t).var] = Some(Statement(t).arg)]
    /\ test' = [test EXCEPT ![t].pc = @ + 1]
    /\ UNCHANGED <<sig, inserted, canon, outcome, cred, cpc, cwd, fs, lock>>

\* env::remove_var
env_remove_var(t) ==
    /\ Statement(t).op = "remove_var"
    /\ env' = [env EXCEPT ![Statement(t).var] = None]
    /\ test' = [test EXCEPT ![t].pc = @ + 1]
    /\ UNCHANGED <<sig, inserted, canon, outcome, cred, cpc, cwd, fs, lock>>

\* Credentials::new().path(..)[.profile(..)].load() in test t, on the process
\* environment as it is at that moment; `during` records which other tests
\* were between a set and a remove
Test_load(t) ==
    /\ Statement(t).op = "load"
    /\ LET new == [key |-> None, secret |-> None, path |-> get_profile_path(env),
                   profile |-> get_default_profile(env)]
           p == get_absolute_path(FIXTURE_PATH, cwd)
           given == IF IsSome(Statement(t).arg) THEN Unwrapped(Statement(t).arg)
                    ELSE new.profile
           built == [new EXCEPT !.path = p.value, !.profile = given]
       IN  IF p.panic THEN Finished(t, FALSE)
           ELSE /\ test' = [test EXCEPT
                      ![t].pc = @ + 1,
                      ![t].cred = load(built, env, fs).value,
                      ![t].during = {u \in Suite \ {t} : BetweenSetAndRemove(u)}]
                /\ lock' = lock
    /\ UNCHANGED <<sig, inserted, canon, outcome, credVars>>

\* the assertions at the end of test t, after which its guard goes out of scope
Test_assert(t) ==
    /\ Statement(t).op = "assert"
    /\ Finished(t, assertion(t, test[t].cred))
    /\ UNCHANGED <<sig, inserted, canon, outcome, credVars>>

\* cargo test in the project root, without AWS_* variables in the environment
InitSuite ==
    /\ sig = SigV4_new(TestDate)
    /\ inserted = <<>>
    /\ canon = <<>>
    /\ outcome = Pending
    /\ cred = Unbuilt
    /\ cpc = "start"
    /\ env = [AWS_ACCESS_KEY_ID |-> None, AWS_SECRET_ACCESS_KEY |-> None,
              AWS_PROFILE |-> None, HOME |-> Some(HOME_DIR)]
    /\ cwd = Some(WORK_DIR)
    /\ fs = (PathBuf_push(WORK_DIR, FIXTURE_PATH) :> SuiteIni)
    /\ test = [t \in Suite |-> [pc |-> 1, cred |-> Unbuilt, during |-> {},
                                result |-> "running"]]
    /\ lock = Unlocked

NextSuite ==
    \E t \in Suite :
        \/ RwLock_read(t)
        \/ RwLock_write(t)
        \/ env_set_var(t)
        \/ Test_load(t)
        \/ env_remove_var(t)
        \/ Test_assert(t)

SpecSuite == InitSuite /\ [][NextSuite]_vars

\* ----------------------------------------------------------- claim helpers
NotAuthorization(k) == k # AUTHORIZATION

\* the stored keys other than authorization, ascending
SignedKeys == SelectSeq(SortedKeys(DOMAIN sig.headers), NotAuthorization)

FoldCase(c) == IF c >= 65 /\ c <= 90 THEN c + 32 ELSE c

SameName(a, b) == Len(a) = Len(b) /\ \A i \in 1..Len(a) : FoldCase(a[i]) = FoldCase(b[i])

\* the values inserted under a name equal to k up to letter case, in call order
ValuesInsertedUnder(k) ==
    LET Under(e) == SameName(e[1], k)
        calls == SelectSeq(inserted, Under)
    IN  [i \in 1..Len(calls) |-> calls[i][2]]

\* C1: signed_headers() is the stored keys other than authorization, ascending,
\* joined by single ';': no leading, trailing or doubled ';', wherever
\* authorization falls in the key order.
C1_SignedHeadersJoined == signed_headers(sig) = Join(SignedKeys, Str(<<";">>))

\* C4: canonical_headers() emits, per stored key other than authorization in
\* ascending order, key ':' the key's canonicalized values joined by ',' (n values
\* give n-1 separating commas, also when a value is empty) and a newline.
C4_CanonicalHeadersJoined ==
    canonical_headers(sig) =
        Concat([i \in 1..Len(SignedKeys) |->
                   SignedKeys[i] \o Str(<<":">>)
                   \o Join([j \in 1..Len(sig.headers[SignedKeys[i]]) |->
                               canonical_piece(sig.headers[SignedKeys[i]][j])],
                           Str(<<",">>))
                   \o <<10>>])

\* C9: every key of the header store is lowercase, names that differ only in
\* letter case share one key, and the values under a key are exactly the values
\* inserted under that name, in insertion order (nothing overwritten or dropped).
C9_HeaderStoreAccumulates ==
    /\ \A k \in DOMAIN sig.headers : \A i \in 1..Len(k) : ~(k[i] >= 65 /\ k[i] <= 90)
    /\ \A i \in 1..Len(inserted) : \E k \in DOMAIN sig.headers : SameName(inserted[i][1], k)
    /\ \A k \in DOMAIN sig.headers :
          /\ sig.headers[k] = ValuesInsertedUnder(k)
          /\ Len(sig.headers[k]) >= 1

\* C9 witness: two names differing only in case were inserted with different
\* values and share one key holding both values in call order.
C9_Witness ==
    /\ Len(inserted) >= 2
    /\ inserted[1][1] # inserted[2][1]
    /\ inserted[1][2] # inserted[2][2]
    /\ \E k \in DOMAIN sig.headers : sig.headers[k] = <<inserted[1][2], inserted[2][2]>>

\* the positions of v kept when every pair of consecutive spaces becomes one
\* space: a space is dropped when it is the 2nd, 4th, ... of its run of spaces
RunStart(v, i) == CHOOSE j \in 1..i :
    /\ \A m \in j..i : v[m] = 32
    /\ j = 1 \/ v[j - 1] # 32

KeptPositions(v) ==
    {i \in 1..Len(v) : v[i] # 32 \/ (i - RunStart(v, i)) % 2 = 0}

RECURSIVE Pick(_, _, _)
Pick(v, i, keep) ==
    IF i > Len(v) THEN <<>>
    ELSE (IF i \in keep THEN <<v[i]>> ELSE <<>>) \o Pick(v, i + 1, keep)

PairsCollapsed(v) == Pick(v, 1, KeptPositions(v))

\* r is s without its leading and trailing whitespace
IsTrimOf(r, s) ==
    /\ r = <<>> \/ (~IsWhitespace(r[1]) /\ ~IsWhitespace(r[Len(r)]))
    /\ \E a \in 0..Len(s) :
          /\ a + Len(r) <= Len(s)
          /\ \A i \in 1..a : IsWhitespace(s[i])
          /\ \A i \in 1..Len(r) : s[a + i] = r[i]
          /\ \A i \in (a + Len(r) + 1)..Len(s) : IsWhitespace(s[i])

ValueCanonical(v, out) ==
    IF Len(v) > 0 /\ v[1] = 34 THEN out = v ELSE IsTrimOf(out, PairsCollapsed(v))

\* C10: canonical_value leaves a value starting with a double quote untouched and
\* for every other value turns each pair of consecutive spaces into one space and
\* trims leading and trailing whitespace, decided per value and not per header.
C10_CanonicalValuePerValue ==
    \A k \in DOMAIN sig.headers :
        LET vals == sig.headers[k]
            single == [i \in 1..Len(vals) |-> canonical_value(<<vals[i]>>)]
        IN  /\ \A i \in 1..Len(vals) : ValueCanonical(vals[i], single[i])
            /\ (\A i \in 1..Len(vals) : single[i] # <<>>)
                  => canonical_value(vals) = Join(single, Str(<<",">>))

\* C10 witness: one header holds an unquoted value with a double space, which
\* was collapsed, and a quoted value with a double space, which was kept.
C10_Witness ==
    \E k \in DOMAIN sig.headers :
        /\ sig.headers[k] = << Str(<<" ", " ", "a">>), Str(<<"\"", " ", " ", "a">>) >>
        /\ canonical_value(sig.headers[k]) = Str(<<"a", ",", "\"", " ", " ", "a">>)

AlreadyCanonical(n) == \E j \in 1..(n - 1) : canon[j].output = canon[n].input

\* C3 as stated: canonicalizing an already-canonical query string returns it
\* unchanged, whatever the raw query was.
C3_Idempotent ==
    \A n \in 1..Len(canon) : AlreadyCanonical(n) => canon[n].output = canon[n].input

\* C3 as amended: canonicalizing an already-canonical query string returns it
\* unchanged exactly when it holds no percent escape, that is when no byte of
\* the raw keys and values needed encoding; otherwise every '%' is encoded again.
C3_IdempotentWithoutEscapes ==
    \A n \in 1..Len(canon) :
        AlreadyCanonical(n) =>
            (canon[n].output = canon[n].input <=> ~contains_char(canon[n].input, 37))

\* C3 witness: a raw query that canonicalization reordered, whose canonical
\* form was canonicalized again and came back unchanged.
C3_Witness ==
    /\ Len(canon) = 2
    /\ canon[1].input = Str(<<"f","o","o","=","&","b","a","r","=","&","b","a","z","=">>)
    /\ canon[1].output = Str(<<"b","a","r","=","&","b","a","z","=","&","f","o","o","=">>)
    /\ canon[2].input = canon[1].output
    /\ canon[2].output = canon[1].output

PairOf(qp) == byte_serialize(qp.k) \o Str(<<"=">>) \o byte_serialize(qp.v)

Occurrences(seq, x) == Cardinality({i \in 1..Len(seq) : seq[i] = x})

SameBag(a, b) ==
    /\ Len(a) = Len(b)
    /\ \A i \in 1..Len(a) : Occurrences(a, a[i]) = Occurrences(b, a[i])

\* C5: every '&'-separated token yields exactly one key=value pair: a token with
\* '=' is split at its first '=' only (the value keeps any further '='), a token
\* without '=' is the key of an empty value; several '=' never abort.
C5_TokenSplitAtFirstEquals ==
    \A n \in 1..Len(canon) :
        LET x == canon[n].input
            tokens == split(x, 38)
            h == parse_query(x)
            pairs == split(canon[n].output, 38)
        IN  /\ Join(tokens, <<38>>) = x
            /\ \A i \in 1..Len(tokens) : ~contains_char(tokens[i], 38)
            /\ Len(h) = Len(tokens)
            /\ \A i \in 1..Len(tokens) :
                  IF contains_char(tokens[i], 61)
                  THEN /\ h[i].k \o <<61>> \o h[i].v = tokens[i]
                       /\ ~contains_char(h[i].k, 61)
                  ELSE h[i].k = tokens[i] /\ h[i].v = <<>>
            /\ SameBag(pairs, [i \in 1..Len(h) |-> PairOf(h[i])])

\* C5 witness: a token with two '=' was canonicalized: its key is the text before
\* the first '=', its value the rest, the second '=' included.
C5_Witness ==
    \E n \in 1..Len(canon) :
        /\ canon[n].input = Str(<<"a","=","b","=">>)
        /\ parse_query(canon[n].input) = <<[k |-> Str(<<"a">>), v |-> Str(<<"b","=">>)]>>
        /\ canon[n].output = Str(<<"a","=","b","%","3","D">>)

\* C6: the parameters are listed in ascending byte-wise order of their keys, the
\* sort is stable, the output is a permutation of the parsed parameters, joined
\* by '&' with no trailing separator.
C6_StableSortByKey ==
    \A n \in 1..Len(canon) :
        LET h == parse_query(canon[n].input)
            sorted == sort_by_key(h)
        IN  /\ Len(sorted) = Len(h)
            /\ \A i, j \in 1..Len(sorted) : i < j => ~StrLess(sorted[j].k, sorted[i].k)
            /\ \A m \in 1..Len(h) :
                  LET HasKey(qp) == qp.k = h[m].k
                  IN  SelectSeq(sorted, HasKey) = SelectSeq(h, HasKey)
            /\ canon[n].output = Join([i \in 1..Len(sorted) |-> PairOf(sorted[i])], <<38>>)

\* C6 witness: the query of test_canonical_query_complex: q.options moved behind
\* the two q parameters, which kept their order.
C6_Witness ==
    \E n \in 1..Len(canon) :
        /\ canon[n].input =
              Str(<<"q",".","o","p","t","i","o","n","s","=","a","b","c","&",
                    "q","=","x","y","z","&","q","=","m","n","o">>)
        /\ canon[n].output =
              Str(<<"q","=","x","y","z","&","q","=","m","n","o","&",
                    "q",".","o","p","t","i","o","n","s","=","a","b","c">>)

\* the file at the resolved path parses and its section for the resolved
\* profile holds the key
FileSupplies(name) ==
    /\ cred.path \in DOMAIN fs
    /\ fs[cred.path].parses
    /\ cred.profile \in DOMAIN fs[cred.path].doc
    /\ name \in DOMAIN fs[cred.path].doc[cred.profile]

FileValue(name) == fs[cred.path].doc[cred.profile][name]

\* C7: after load() each field is its environment variable when that is set,
\* otherwise the value of the resolved profile's section of the file, field by
\* field: one variable alone leaves the other field at its file value.
C7_EnvironmentWinsPerField ==
    cpc = "loaded" =>
        /\ IsSome(env.AWS_ACCESS_KEY_ID) => cred.key = env.AWS_ACCESS_KEY_ID
        /\ IsSome(env.AWS_SECRET_ACCESS_KEY) => cred.secret = env.AWS_SECRET_ACCESS_KEY
        /\ (~IsSome(env.AWS_ACCESS_KEY_ID) /\ FileSupplies(AWS_ACCESS_KEY_ID_KEY))
              => cred.key = Some(FileValue(AWS_ACCESS_KEY_ID_KEY))
        /\ (~IsSome(env.AWS_SECRET_ACCESS_KEY) /\ FileSupplies(AWS_SECRET_ACCESS_KEY_KEY))
              => cred.secret = Some(FileValue(AWS_SECRET_ACCESS_KEY_KEY))

\* C7 witness: only the secret's variable is set and the file holds both keys
\* (test_env_first_fail): the key is the file's, the secret the environment's.
C7_Witness ==
    /\ cpc = "loaded"
    /\ ~IsSome(env.AWS_ACCESS_KEY_ID) /\ IsSome(env.AWS_SECRET_ACCESS_KEY)
    /\ cred.path = Str(<<"/","w","/","f">>)
    /\ FileSupplies(AWS_ACCESS_KEY_ID_KEY) /\ FileSupplies(AWS_SECRET_ACCESS_KEY_KEY)
    /\ cred.key = Some(Str(<<"1","2","3","4","5">>))
    /\ cred.secret = Some(Str(<<"e","s">>))

\* C8: load() never raises: with the file absent or unparseable, the profile's
\* section missing or a key missing, it returns and each field that neither the
\* file nor its environment variable supplies is absent.
C8_LoadNeverRaises ==
    /\ cpc # "load_panicked"
    /\ cpc = "built" => ENABLED Credentials_load
    /\ cpc = "loaded" =>
          /\ (~IsSome(env.AWS_ACCESS_KEY_ID) /\ ~FileSupplies(AWS_ACCESS_KEY_ID_KEY))
                => cred.key = None
          /\ (~IsSome(env.AWS_SECRET_ACCESS_KEY) /\ ~FileSupplies(AWS_SECRET_ACCESS_KEY_KEY))
                => cred.secret = None

\* C8 witness: load() returned with no file at the resolved path and neither
\* variable set: both fields are absent.
C8_Witness ==
    /\ cpc = "loaded"
    /\ cred.path \notin DOMAIN fs
    /\ ~IsSome(env.AWS_ACCESS_KEY_ID) /\ ~IsSome(env.AWS_SECRET_ACCESS_KEY)
    /\ cred.key = None /\ cred.secret = None

SecretMissing ==
    ~IsSome(sig.credentials) \/ ~IsSome(Unwrapped(sig.credentials).secret)

\* C2: signature() on a signer without credentials, or whose credentials have no
\* secret key, ends in a MissingCredentials error returned to the caller: it
\* neither panics nor returns a signature.
C2_MissingCredentialsReturned ==
    (outcome.kind # "pending" /\ SecretMissing) => outcome.kind = "missing_credentials"

\* the field an Option<String> contributes: its content, or nothing when unset
FieldOrEmpty(opt) == IF opt = None THEN <<>> ELSE opt[1]

\* C11: canonical_request() is total and is method, path, canonical query
\* string, canonical headers, signed headers and hashed payload, in that order,
\* joined by single newlines; an unset method, path or query gives the empty
\* string, an unset payload the hash of the empty byte sequence, so that a fresh
\* signer gives five newlines and the hash of the empty payload.
C11_CanonicalRequestSixFields ==
    /\ canonical_request(sig) \in Seq(0..Term.end)
    /\ canonical_request(sig) =
          Join(<< FieldOrEmpty(sig.method),
                  FieldOrEmpty(sig.path),
                  IF sig.query = None THEN <<>> ELSE canonical_query_string(sig),
                  canonical_headers(sig),
                  signed_headers(sig),
                  sha256_hex(FieldOrEmpty(sig.payload)) >>, <<10>>)
    /\ sig = SigV4_new(sig.date) =>
          canonical_request(sig) = <<10, 10, 10, 10, 10>> \o sha256_hex(<<>>)

\* C11 witness: every field set and two header names stored; the six fields are
\* all non-empty and distinct.
C11_Witness ==
    /\ IsSome(sig.method) /\ IsSome(sig.path) /\ IsSome(sig.query)
    /\ IsSome(sig.payload) /\ Unwrapped(sig.payload) # <<>>
    /\ Cardinality(DOMAIN sig.headers) >= 2
    /\ signed_headers(sig) # <<>>
    /\ canonical_headers(sig) # signed_headers(sig)
    /\ Len(canonical_request(sig)) >
          Len(canonical_headers(sig)) + Len(signed_headers(sig)) + 5

\* C12: no test that asserts on loaded credentials observes environment
\* variables set by a concurrently running test: a test that sets a variable
\* holds the write lock from the set to the remove, every test that loads holds
\* the lock during the load, and so no load runs between another test's set
\* and remove.
C12_NoLoadBetweenSetAndRemove ==
    /\ \A u \in Suite : BetweenSetAndRemove(u) => u \in lock.writer
    /\ \A t \in Suite : test[t].during = {}

HasTwoSpaces(s) == \E i \in 1..(Len(s) - 1) : s[i] = 32 /\ s[i + 1] = 32

\* C13: for every header value that does not start with a double quote, the
\* value canonical_value produces for it holds no two consecutive spaces and no
\* leading or trailing whitespace, whatever the length of the runs of spaces in
\* the input.
C13_NoConsecutiveSpacesLeft ==
    \A k \in DOMAIN sig.headers : \A i \in 1..Len(sig.headers[k]) :
        LET v == sig.headers[k][i]
            out == canonical_value(<<v>>)
        IN  ~starts_with_quote(v) =>
              /\ ~HasTwoSpaces(out)
              /\ out # <<>> => ~IsWhitespace(out[1]) /\ ~IsWhitespace(out[Len(out)])

====
